---- MODULE Spec2Model ----
(***************************************************************************)
(* Model of server.js: an express server over one sqlite3 connection.      *)
(*                                                                         *)
(* Every route handler is an async function: the code between two awaits   *)
(* runs without interruption on the single event-loop thread, and every    *)
(* await (a bcrypt call, a store statement) is a point where other         *)
(* handlers and the startup routine init may run.  Each action below is    *)
(* one such uninterrupted stretch together with the awaited operation that *)
(* starts or ends it.  The store executes one statement at a time.         *)
(*                                                                         *)
(* The CREATE TABLE IF NOT EXISTS statements of init are the first         *)
(* statements handed to the connection, before the server listens, so the  *)
(* tables (and the UNIQUE constraint on users.email) exist whenever a      *)
(* later statement runs; they are part of InsertUser / InsertSubmission.   *)
(*                                                                         *)
(* Strings the code inspects character by character (emails, JSON text)    *)
(* are sequences of one-character strings; other strings are TLA+ strings. *)
(* The value "" stands for every falsy value of a request field            *)
(* (undefined, null, "").                                                  *)
(***************************************************************************)
EXTENDS Integers, Sequences, FiniteSets

VARIABLES
  users,        \* rows of table users: [id, email, password, role]
  submissions,  \* rows of table submissions: [id, data, createdAt]
  lastRowid,    \* the connection's last_insert_rowid()
  initState,    \* position of the startup routine init
  reqs,         \* the requests received so far: locals, position, response
  now,          \* the clock in whole seconds (JWT NumericDate, createdAt)
  ticks,        \* number of clock advances so far
  restarts      \* number of process restarts so far

vars == <<users, submissions, lastRowid, initState, reqs, now, ticks, restarts>>

----------------------------------------------------------------------------
(* Bounds *)

MaxReqs == 2
MaxAccessReqs == 3
MaxSubmits == 2
MaxRestarts == 1
MaxTicks == 1
MaxInFlight == 2

ReqIds == 1..(MaxReqs + MaxSubmits)

----------------------------------------------------------------------------
(* Characters and String.prototype.toLowerCase *)

UpperChars == <<"A", "B", "E", "X">>
LowerChars == <<"a", "b", "e", "x">>

LowerChar(c) ==
  IF \E i \in DOMAIN UpperChars : UpperChars[i] = c
    THEN LowerChars[CHOOSE i \in DOMAIN UpperChars : UpperChars[i] = c]
    ELSE c

ToLowerCaseId(s) == s

ToLowerCase(s) == [i \in DOMAIN s |-> LowerChar(s[i])]

IsLower(s) == \A i \in DOMAIN s : \A j \in DOMAIN UpperChars : s[i] # UpperChars[j]

----------------------------------------------------------------------------
(* bcrypt: a salted one-way hash; compare re-hashes with the hash's salt *)

\* bcrypt.hash draws a fresh random salt on every call: the salt is named
\* after the call that drew it (request r, or init's i-th account after the
\* given number of restarts)

BcryptHash(password, salt) == [salt |-> salt, digest |-> <<salt, password>>]

BcryptCompareAny(password, hash) == TRUE

BcryptCompare(password, hash) == BcryptHash(password, hash.salt) = hash

----------------------------------------------------------------------------
(* The demo accounts of init *)

EmployerEmail ==
  <<"e","m","p","l","o","y","e","r","@","g","m","a","i","l",".","c","o","m">>
JobseekerEmail ==
  <<"j","o","b","s","e","e","k","e","r","@","g","m","a","i","l",".","c","o","m">>
AdminEmail ==
  <<"a","d","m","i","n","@","b","r","a","n","d","a","g","e","n","t",".","c","o","m">>

demoUsers ==
  << [email |-> EmployerEmail,  password |-> "123456",   role |-> "employer"],
     [email |-> JobseekerEmail, password |-> "123456",   role |-> "jobseeker"],
     [email |-> AdminEmail,     password |-> "admin123", role |-> "admin"] >>

----------------------------------------------------------------------------
(* The store *)

MaxId(rows) == CHOOSE m \in {r.id : r \in rows} : \A r \in rows : r.id <= m

\* INTEGER PRIMARY KEY: the new rowid is one more than the largest in the table
NextRowid(rows) == IF rows = {} THEN 1 ELSE MaxId(rows) + 1

\* the UNIQUE constraint on users.email
UniqueViolationNever(email) == FALSE

UniqueViolation(email) == \E u \in users : u.email = email

InsertOrReplaceUser(email, hash, role) ==
  /\ users' = {u \in users : u.email # email}
                \cup {[id |-> NextRowid(users), email |-> email,
                       password |-> hash, role |-> role]}
  /\ lastRowid' = NextRowid(users)

\* INSERT INTO users: a rejected INSERT leaves the table and
\* last_insert_rowid as they were
InsertUser(email, hash, role) ==
  IF UniqueViolation(email)
    THEN UNCHANGED <<users, lastRowid>>
    ELSE /\ users' = users \cup {[id |-> NextRowid(users), email |-> email,
                                  password |-> hash, role |-> role]}
         /\ lastRowid' = NextRowid(users)

\* SELECT ... FROM users WHERE email = ?: the set of matching rows
SelectUser(email) == {u \in users : u.email = email}

\* INSERT INTO submissions
InsertSubmission(data, createdAt) ==
  /\ submissions' = submissions \cup {[id |-> NextRowid(submissions),
                                       data |-> data, createdAt |-> createdAt]}
  /\ lastRowid' = NextRowid(submissions)

\* ORDER BY id DESC
RECURSIVE OrderByIdDesc(_)
OrderByIdDesc(rows) ==
  IF rows = {} THEN <<>>
  ELSE LET first == CHOOSE r \in rows : r.id = MaxId(rows)
       IN <<first>> \o OrderByIdDesc(rows \ {first})

----------------------------------------------------------------------------
(* JSON.stringify and JSON.parse of a request body: an object whose keys   *)
(* and values are strings, as a sequence of <<key, value>> pairs           *)

Quote == "\""
Backslash == "\\"

EscapeNone(s) == s

RECURSIVE Escape(_)
Escape(s) ==
  IF s = <<>> THEN <<>>
  ELSE (IF Head(s) \in {Quote, Backslash} THEN <<Backslash, Head(s)>> ELSE <<Head(s)>>)
       \o Escape(Tail(s))

Quoted(s) == <<Quote>> \o Escape(s) \o <<Quote>>

RECURSIVE Members(_)
Members(obj) ==
  IF obj = <<>> THEN <<>>
  ELSE Quoted(obj[1][1]) \o <<":">> \o Quoted(obj[1][2])
       \o (IF Len(obj) > 1 THEN <<",">> ELSE <<>>) \o Members(Tail(obj))

JSONStringify(obj) == <<"{">> \o Members(obj) \o <<"}">>

\* reads the characters of a string literal from position i (after the opening
\* quote) to its closing quote; next = 0 is a syntax error
RECURSIVE ReadChars(_, _, _)
ReadChars(t, i, acc) ==
  IF i > Len(t) THEN [val |-> acc, next |-> 0]
  ELSE IF t[i] = Quote THEN [val |-> acc, next |-> i + 1]
  ELSE IF t[i] = Backslash
    THEN IF i + 1 > Len(t) THEN [val |-> acc, next |-> 0]
         ELSE ReadChars(t, i + 2, Append(acc, t[i + 1]))
  ELSE ReadChars(t, i + 1, Append(acc, t[i]))

ParseString(t, i) ==
  IF i >= 1 /\ i <= Len(t) /\ t[i] = Quote
    THEN ReadChars(t, i + 1, <<>>)
    ELSE [val |-> <<>>, next |-> 0]

SyntaxError == [ok |-> FALSE, value |-> <<>>]

RECURSIVE ParseMembers(_, _, _)
ParseMembers(t, i, acc) ==
  LET k == ParseString(t, i)
      v == ParseString(t, k.next + 1)
  IN IF k.next = 0 \/ k.next > Len(t) \/ t[k.next] # ":" \/ v.next = 0
          \/ v.next > Len(t)
       THEN SyntaxError
     ELSE IF t[v.next] = "}"
       THEN IF v.next = Len(t)
              THEN [ok |-> TRUE, value |-> Append(acc, <<k.val, v.val>>)]
              ELSE SyntaxError
     ELSE IF t[v.next] = ","
       THEN ParseMembers(t, v.next + 1, Append(acc, <<k.val, v.val>>))
     ELSE SyntaxError

JSONParse(t) ==
  IF Len(t) < 2 \/ t[1] # "{" THEN SyntaxError
  ELSE IF t[2] = "}" THEN (IF Len(t) = 2 THEN [ok |-> TRUE, value |-> <<>>]
                           ELSE SyntaxError)
  ELSE ParseMembers(t, 2, <<>>)

----------------------------------------------------------------------------
(* JSON web tokens.  A token string is a record: text "jwt" for a          *)
(* well-formed token with its claims and the secret it was signed with.    *)

SECRET == "replace_this_with_a_real_secret"

\* expiresIn: '24h', in seconds
ExpiresIn == 86400

Null == [id |-> 0, email |-> <<>>, role |-> "", iat |-> 0, exp |-> 0]

Word(text) == [text |-> text, claims |-> Null, sig |-> ""]

Undefined == Word("undefined")

Jwt(claims, secret) == [text |-> "jwt", claims |-> claims, sig |-> secret]

signTokenShort(payload) ==
  Jwt([id |-> payload.id, email |-> payload.email, role |-> payload.role,
       iat |-> now, exp |-> now + 3600], SECRET)

signToken(payload) ==
  Jwt([id |-> payload.id, email |-> payload.email, role |-> payload.role,
       iat |-> now, exp |-> now + ExpiresIn], SECRET)

verifyTokenNoExpiry(token) ==
  IF token.text = "jwt" /\ token.sig = SECRET THEN token.claims ELSE Null

\* jwt.verify throws on a missing or malformed token, on a signature made
\* with another secret, and once the clock has reached exp
verifyToken(token) ==
  IF token.text = "jwt" /\ token.sig = SECRET /\ now < token.claims.exp
    THEN token.claims
    ELSE Null

\* (req.headers.authorization || '').split(' ')[1], the header given as the
\* sequence of its space-separated fields
BearerField(auth) == IF Len(auth) >= 2 THEN auth[2] ELSE Undefined

----------------------------------------------------------------------------
(* Requests *)

NoBody == [pending |-> TRUE]
NoHash == [salt |-> 0, digest |-> <<>>]
NoRow == [id |-> 0, email |-> <<>>, password |-> NoHash, role |-> ""]

Idle == [op |-> "none", pc |-> "idle", status |-> 0, body |-> NoBody]

InFlight == {r \in ReqIds : reqs[r].pc \notin {"idle", "done", "dropped"}}

Submits == {r \in ReqIds : reqs[r].op = "submit"}
Others == {r \in ReqIds : reqs[r].op \notin {"none", "submit"}}

\* r is the next request the server receives
Arrives(r) ==
  /\ reqs[r].pc = "idle"
  /\ \A q \in ReqIds : q < r => reqs[q].pc # "idle"
  /\ Cardinality(InFlight) < MaxInFlight

\* fewer than n requests other than POST /api/submit have been received
Quota(n) == Cardinality(Others) < n

ArrivesSubmit(r) == Arrives(r) /\ Cardinality(Submits) < MaxSubmits

Receive(r, rec) == reqs' = [reqs EXCEPT ![r] = rec]

\* res.status(status).json(body)
Respond(r, status, body) ==
  reqs' = [reqs EXCEPT ![r].pc = "done", ![r].status = status, ![r].body = body]

Answered(r) == reqs[r].pc = "done"

----------------------------------------------------------------------------
(* init: the demo accounts *)

InitStart == [pc |-> "get", i |-> 1, hash |-> NoHash]

\* the loop's next iteration, or the end of init
InitAdvance ==
  IF initState.i < Len(demoUsers)
    THEN [pc |-> "get", i |-> initState.i + 1, hash |-> NoHash]
    ELSE [pc |-> "done", i |-> initState.i, hash |-> NoHash]

\* const row = await get('SELECT id FROM users WHERE email = ?'); if(!row)
InitGet ==
  /\ initState.pc = "get"
  /\ initState' = IF SelectUser(demoUsers[initState.i].email) = {}
                    THEN [initState EXCEPT !.pc = "hash"]
                    ELSE InitAdvance
  /\ UNCHANGED <<users, submissions, lastRowid, reqs, now, ticks, restarts>>

InitSaltOf(n, i) == MaxReqs + MaxSubmits + n * Len(demoUsers) + i

InitSalt == InitSaltOf(restarts, initState.i)

\* const hash = await bcrypt.hash(u.password, 10)
InitHash ==
  /\ initState.pc = "hash"
  /\ initState' = [initState EXCEPT
                     !.pc = "insert",
                     !.hash = BcryptHash(demoUsers[initState.i].password, InitSalt)]
  /\ UNCHANGED <<users, submissions, lastRowid, reqs, now, ticks, restarts>>

\* await run('INSERT INTO users ...'): a rejected INSERT throws out of the
\* loop into .catch(err => console.error(err))
InitInsert ==
  /\ initState.pc = "insert"
  /\ LET u == demoUsers[initState.i]
     IN /\ InsertUser(u.email, initState.hash, u.role)
        /\ initState' = IF UniqueViolation(u.email)
                          THEN [initState EXCEPT !.pc = "failed"]
                          ELSE InitAdvance
  /\ UNCHANGED <<submissions, reqs, now, ticks, restarts>>

----------------------------------------------------------------------------
(* POST /api/register *)

roleOrDefaultJobseeker(role) == "jobseeker"

\* role || 'jobseeker'
roleOrDefault(role) == IF role # "" THEN role ELSE "jobseeker"

\* const {email,password,role} = req.body; if(!email || !password) return 400
Register(r, b) ==
  /\ Arrives(r)
  /\ LET rec == [op |-> "register", pc |-> "hash", status |-> 0, body |-> NoBody,
                 email |-> b.email, password |-> b.password, role |-> b.role,
                 hashed |-> NoHash]
     IN IF b.email = <<>> \/ b.password = ""
          THEN Receive(r, [rec EXCEPT !.pc = "done", !.status = 400,
                                      !.body = [error |-> "missing email/password"]])
          ELSE Receive(r, rec)
  /\ UNCHANGED <<users, submissions, lastRowid, initState, now, ticks, restarts>>

\* const hashed = await bcrypt.hash(password, 10)
RegisterHash(r) ==
  /\ reqs[r].op = "register" /\ reqs[r].pc = "hash"
  /\ reqs' = [reqs EXCEPT ![r].pc = "insert",
                          ![r].hashed = BcryptHash(reqs[r].password, r)]
  /\ UNCHANGED <<users, submissions, lastRowid, initState, now, ticks, restarts>>

\* await run('INSERT INTO users ...', [email.toLowerCase(), hashed, role || 'jobseeker'])
\* then res.json({ok:true}), or 400 'user exists' on a UNIQUE constraint error
RegisterInsert(r) ==
  /\ reqs[r].op = "register" /\ reqs[r].pc = "insert"
  /\ LET email == ToLowerCase(reqs[r].email)
     IN /\ InsertUser(email, reqs[r].hashed, roleOrDefault(reqs[r].role))
        /\ IF UniqueViolation(email)
             THEN Respond(r, 400, [error |-> "user exists"])
             ELSE Respond(r, 200, [ok |-> TRUE])
  /\ UNCHANGED <<submissions, initState, now, ticks, restarts>>

----------------------------------------------------------------------------
(* POST /api/login *)

\* const {email,password} = req.body; if(!email || !password) return 400
Login(r, b) ==
  /\ Arrives(r)
  /\ LET rec == [op |-> "login", pc |-> "get", status |-> 0, body |-> NoBody,
                 email |-> b.email, password |-> b.password, row |-> NoRow,
                 at |-> now]
     IN IF b.email = <<>> \/ b.password = ""
          THEN Receive(r, [rec EXCEPT !.pc = "done", !.status = 400,
                                      !.body = [error |-> "missing"]])
          ELSE Receive(r, rec)
  /\ UNCHANGED <<users, submissions, lastRowid, initState, now, ticks, restarts>>

\* const row = await get('SELECT * FROM users WHERE email=?', [email.toLowerCase()])
\* if(!row) return 401 'no user'
LoginGet(r) ==
  /\ reqs[r].op = "login" /\ reqs[r].pc = "get"
  /\ LET rows == SelectUser(ToLowerCase(reqs[r].email))
     IN IF rows = {}
          THEN Respond(r, 401, [error |-> "no user"])
          ELSE reqs' = [reqs EXCEPT ![r].pc = "compare",
                                    ![r].row = CHOOSE u \in rows : TRUE]
  /\ UNCHANGED <<users, submissions, lastRowid, initState, now, ticks, restarts>>

\* const ok = await bcrypt.compare(password, row.password)
\* if(!ok) return 401 'wrong password'; res.json({token, role: row.role})
\* (at records when the token was signed)
LoginCompare(r) ==
  /\ reqs[r].op = "login" /\ reqs[r].pc = "compare"
  /\ LET row == reqs[r].row
     IN IF ~BcryptCompare(reqs[r].password, row.password)
          THEN Respond(r, 401, [error |-> "wrong password"])
          ELSE reqs' = [reqs EXCEPT
                 ![r].pc = "done", ![r].status = 200, ![r].at = now,
                 ![r].body = [token |-> signToken([id |-> row.id, email |-> row.email,
                                                   role |-> row.role]),
                              role |-> row.role]]
  /\ UNCHANGED <<users, submissions, lastRowid, initState, now, ticks, restarts>>

----------------------------------------------------------------------------
(* POST /api/submit *)

\* const str = JSON.stringify(req.body); const createdAt = new Date()...
Submit(r, payload) ==
  /\ ArrivesSubmit(r)
  /\ Receive(r, [op |-> "submit", pc |-> "insert", status |-> 0, body |-> NoBody,
                 payload |-> payload, str |-> JSONStringify(payload),
                 createdAt |-> now, inserted |-> 0])
  /\ UNCHANGED <<users, submissions, lastRowid, initState, now, ticks, restarts>>

\* await run('INSERT INTO submissions (data, createdAt) VALUES (?,?)')
\* (inserted records the id the store gave the row; the handler does not see it)
SubmitInsert(r) ==
  /\ reqs[r].op = "submit" /\ reqs[r].pc = "insert"
  /\ InsertSubmission(reqs[r].str, reqs[r].createdAt)
  /\ reqs' = [reqs EXCEPT ![r].pc = "last",
                          ![r].inserted = NextRowid(submissions)]
  /\ UNCHANGED <<users, initState, now, ticks, restarts>>

\* const last = await get('SELECT last_insert_rowid() as id')
\* res.json({ok:true, id: last.id})
SubmitLast(r) ==
  /\ reqs[r].op = "submit" /\ reqs[r].pc = "last"
  /\ Respond(r, 200, [ok |-> TRUE, id |-> lastRowid])
  /\ UNCHANGED <<users, submissions, lastRowid, initState, now, ticks, restarts>>

----------------------------------------------------------------------------
(* GET /api/submissions and GET /api/users *)

\* payload.role !== 'admin' is answered 403
isAdmin(payload) == payload.role = "admin"

\* const payload = verifyToken(auth.split(' ')[1])
\* if(!payload) return 401; if(payload.role !== 'admin') return 403
Guarded(r, op, auth) ==
  /\ Arrives(r)
  /\ LET payload == verifyToken(BearerField(auth))
         rec == [op |-> op, pc |-> "all", status |-> 0, body |-> NoBody,
                 auth |-> auth, at |-> now]
     IN IF payload = Null
          THEN Receive(r, [rec EXCEPT !.pc = "done", !.status = 401,
                                      !.body = [error |-> "unauthorized"]])
        ELSE IF ~isAdmin(payload)
          THEN Receive(r, [rec EXCEPT !.pc = "done", !.status = 403,
                                      !.body = [error |-> "forbidden"]])
        ELSE Receive(r, rec)
  /\ UNCHANGED <<users, submissions, lastRowid, initState, now, ticks, restarts>>

GetSubmissions(r, auth) == Guarded(r, "submissions", auth)

GetUsers(r, auth) == Guarded(r, "users", auth)

\* await all('SELECT id, data, createdAt FROM submissions ORDER BY id DESC')
SubmissionsAll(r) ==
  /\ reqs[r].op = "submissions" /\ reqs[r].pc = "all"
  /\ Respond(r, 200, [rows |-> OrderByIdDesc(submissions)])
  /\ UNCHANGED <<users, submissions, lastRowid, initState, now, ticks, restarts>>

\* await all('SELECT id,email,role FROM users ORDER BY id DESC')
UsersAll(r) ==
  /\ reqs[r].op = "users" /\ reqs[r].pc = "all"
  /\ Respond(r, 200,
       [rows |-> OrderByIdDesc({[id |-> u.id, email |-> u.email, role |-> u.role]
                                 : u \in users})])
  /\ UNCHANGED <<users, submissions, lastRowid, initState, now, ticks, restarts>>

----------------------------------------------------------------------------
(* The environment: the clock and process restarts *)

ClockSteps == {ExpiresIn - 1, ExpiresIn, ExpiresIn + 1}

Tick(d) ==
  /\ ticks < MaxTicks
  /\ now' = now + d
  /\ ticks' = ticks + 1
  /\ UNCHANGED <<users, submissions, lastRowid, initState, reqs, restarts>>

\* The process stops and is started again on the same brand.db: the handlers
\* in flight are gone, the new connection's last_insert_rowid is 0, init runs
Restart ==
  /\ restarts < MaxRestarts
  /\ restarts' = restarts + 1
  /\ reqs' = [r \in ReqIds |->
                IF reqs[r].pc \in {"idle", "done", "dropped"}
                  THEN reqs[r]
                  ELSE [reqs[r] EXCEPT !.pc = "dropped"]]
  /\ initState' = InitStart
  /\ lastRowid' = 0
  /\ UNCHANGED <<users, submissions, now, ticks>>

----------------------------------------------------------------------------
(* Inputs *)

alice == <<"a", "@", "x">>
Alice == <<"A", "@", "x">>

RegisterBodies ==
  { [email |-> alice,         password |-> "pw123", role |-> ""],
    [email |-> Alice,         password |-> "other", role |-> "admin"],
    [email |-> EmployerEmail, password |-> "pw123", role |-> "employer"],
    [email |-> <<>>,          password |-> "pw123", role |-> ""] }

LoginBodies ==
  { [email |-> Alice,      password |-> "pw123"],
    [email |-> alice,      password |-> "other"],
    [email |-> AdminEmail, password |-> "admin123"],
    [email |-> alice,      password |-> ""] }

AdminLoginBodies == {[email |-> alice, password |-> "other"]}

DemoAdminLoginBodies == {[email |-> AdminEmail, password |-> "admin123"]}

DemoLoginBodies ==
  { [email |-> AdminEmail,    password |-> "admin123"],
    [email |-> EmployerEmail, password |-> "123456"] }

foo == <<"f", "o", "o">>
bar == <<"b", "a", "r">>

Payloads ==
  { << <<foo, bar>> >>,
    << <<foo, <<Quote, "b", Backslash>> >>, <<bar, <<>> >> >> }

\* the tokens logins have returned so far
IssuedTokens ==
  {reqs[r].body.token : r \in {q \in ReqIds : /\ reqs[q].op = "login"
                                             /\ reqs[q].pc = "done"
                                             /\ reqs[q].status = 200}}

\* a well-formed token for an admin, signed with another secret
Forged ==
  Jwt([id |-> 1, email |-> AdminEmail, role |-> "admin",
       iat |-> 0, exp |-> (MaxTicks + 1) * ExpiresIn], "another_secret")

\* Authorization headers: none, and a scheme with a token
AuthHeaders ==
  { <<Word("")>>, <<Word("Bearer"), Word("garbage")>>, <<Word("Bearer"), Forged>> }
  \cup {<<Word("Bearer"), t>> : t \in IssuedTokens}

IssuedHeaders == {<<Word("Bearer"), t>> : t \in IssuedTokens}

----------------------------------------------------------------------------
(* Specifications *)

\* a new brand.db, the process just started
Init ==
  /\ users = {}
  /\ submissions = {}
  /\ lastRowid = 0
  /\ initState = InitStart
  /\ reqs = [r \in ReqIds |-> Idle]
  /\ now = 0
  /\ ticks = 0
  /\ restarts = 0

\* the process started on a new brand.db and init ran to its end before the
\* first request arrived
SeededUsers ==
  {[id |-> i, email |-> demoUsers[i].email,
    password |-> BcryptHash(demoUsers[i].password, InitSaltOf(0, i)),
    role |-> demoUsers[i].role] : i \in DOMAIN demoUsers}

InitSeeded ==
  /\ users = SeededUsers
  /\ submissions = {}
  /\ lastRowid = Len(demoUsers)
  /\ initState = [pc |-> "done", i |-> Len(demoUsers), hash |-> NoHash]
  /\ reqs = [r \in ReqIds |-> Idle]
  /\ now = 0
  /\ ticks = 0
  /\ restarts = 0

InitSteps ==
  \/ InitGet
  \/ InitHash
  \/ InitInsert

RegisterSteps ==
  \/ \E r \in ReqIds : RegisterHash(r)
  \/ \E r \in ReqIds : RegisterInsert(r)

LoginSteps ==
  \/ \E r \in ReqIds : LoginGet(r)
  \/ \E r \in ReqIds : LoginCompare(r)

SubmitSteps ==
  \/ \E r \in ReqIds : SubmitInsert(r)
  \/ \E r \in ReqIds : SubmitLast(r)

ListSteps ==
  \/ \E r \in ReqIds : SubmissionsAll(r)
  \/ \E r \in ReqIds : UsersAll(r)

\* seeding against registration, across restarts
NextSeed ==
  \/ InitSteps
  \/ Restart
  \/ \E r \in ReqIds, b \in RegisterBodies : Quota(MaxReqs) /\ Register(r, b)
  \/ RegisterSteps

SpecSeed == Init /\ [][NextSeed]_vars

\* registration and login
NextAccounts ==
  \/ InitSteps
  \/ \E r \in ReqIds, b \in RegisterBodies : Quota(MaxReqs) /\ Register(r, b)
  \/ RegisterSteps
  \/ \E r \in ReqIds, b \in LoginBodies : Quota(MaxReqs) /\ Login(r, b)
  \/ LoginSteps

SpecAccounts == Init /\ [][NextAccounts]_vars

\* tokens and the admin-only routes, with the clock, once init has finished
NextAuth ==
  \/ \E r \in ReqIds, b \in DemoLoginBodies : Quota(MaxReqs) /\ Login(r, b)
  \/ LoginSteps
  \/ \E r \in ReqIds, auth \in AuthHeaders : Quota(MaxReqs) /\ GetSubmissions(r, auth)
  \/ \E r \in ReqIds, auth \in AuthHeaders : Quota(MaxReqs) /\ GetUsers(r, auth)
  \/ ListSteps
  \/ \E d \in ClockSteps : Tick(d)

SpecAuth == InitSeeded /\ [][NextAuth]_vars

\* from registration to the admin-only routes
NextAccess ==
  \/ InitSteps
  \/ \E r \in ReqIds, b \in RegisterBodies : Quota(MaxAccessReqs) /\ Register(r, b)
  \/ RegisterSteps
  \/ \E r \in ReqIds, b \in AdminLoginBodies : Quota(MaxAccessReqs) /\ Login(r, b)
  \/ LoginSteps
  \/ \E r \in ReqIds, auth \in IssuedHeaders :
       Quota(MaxAccessReqs) /\ GetSubmissions(r, auth)
  \/ \E r \in ReqIds, auth \in IssuedHeaders : Quota(MaxAccessReqs) /\ GetUsers(r, auth)
  \/ ListSteps

SpecAccess == Init /\ [][NextAccess]_vars

\* submissions and their listing, on a new database
NextSubmit ==
  \/ InitSteps
  \/ \E r \in ReqIds, payload \in Payloads : Submit(r, payload)
  \/ SubmitSteps
  \/ \E r \in ReqIds, b \in DemoAdminLoginBodies : Quota(MaxReqs) /\ Login(r, b)
  \/ LoginSteps
  \/ \E r \in ReqIds, auth \in IssuedHeaders : Quota(MaxReqs) /\ GetSubmissions(r, auth)
  \/ \E r \in ReqIds : SubmissionsAll(r)

SpecSubmit == Init /\ [][NextSubmit]_vars

\* the same once init has finished
NextListing ==
  \/ \E r \in ReqIds, payload \in Payloads : Submit(r, payload)
  \/ SubmitSteps
  \/ \E r \in ReqIds, b \in DemoAdminLoginBodies : Quota(MaxReqs) /\ Login(r, b)
  \/ LoginSteps
  \/ \E r \in ReqIds, auth \in IssuedHeaders : Quota(MaxReqs) /\ GetSubmissions(r, auth)
  \/ \E r \in ReqIds : SubmissionsAll(r)

SpecListing == InitSeeded /\ [][NextListing]_vars

\* every action; each specification above allows a part of its behaviours
Next ==
  \/ InitSteps
  \/ Restart
  \/ \E d \in ClockSteps : Tick(d)
  \/ \E r \in ReqIds, b \in RegisterBodies : Register(r, b)
  \/ RegisterSteps
  \/ \E r \in ReqIds, b \in LoginBodies \cup DemoLoginBodies : Login(r, b)
  \/ LoginSteps
  \/ \E r \in ReqIds, payload \in Payloads : Submit(r, payload)
  \/ SubmitSteps
  \/ \E r \in ReqIds, auth \in AuthHeaders : GetSubmissions(r, auth)
  \/ \E r \in ReqIds, auth \in AuthHeaders : GetUsers(r, auth)
  \/ ListSteps

Spec == Init /\ [][Next]_vars

----------------------------------------------------------------------------
(* Properties: registration and login (SpecAccounts) *)

\* "equal after lowercasing", stated without the handlers' own conversion
Lowered(e) == [i \in DOMAIN e |-> LowerChar(e[i])]

Registers == {r \in ReqIds : reqs[r].op = "register"}
Logins == {r \in ReqIds : reqs[r].op = "login"}

\* r is answered by this step
AnsweredNow(r) == reqs[r].pc # "done" /\ reqs'[r].pc = "done"

\* a register request with both fields present
Complete(q) == q.email # <<>> /\ q.password # ""

RowsOf(email) == {u \in users : u.email = email}

\* C2: a register request (email and password present) for an email that is
\* already stored, in any letter case, is answered 400 'user exists' and
\* leaves the users table as it was, whatever its password and role; one for
\* an email not yet stored is answered {ok:true} and adds that user; and no
\* step ever changes or removes a stored user, so the stored user keeps the
\* first registration's password hash and role.
C2_RegisterTwice ==
  [][ /\ users \subseteq users'
      /\ \A r \in ReqIds :
           LET q == reqs'[r]
           IN (AnsweredNow(r) /\ q.op = "register" /\ Complete(q)) =>
                IF RowsOf(Lowered(q.email)) # {}
                  THEN /\ q.status = 400 /\ q.body = [error |-> "user exists"]
                       /\ users' = users
                  ELSE /\ q.status = 200 /\ q.body = [ok |-> TRUE]
                       /\ users' = users \cup
                            {[id |-> NextRowid(users), email |-> Lowered(q.email),
                              password |-> q.hashed,
                              role |-> IF q.role = "" THEN "jobseeker" ELSE q.role]}
    ]_vars

\* two registrations of one email with different passwords and roles: the
\* first succeeded, the second was refused, the row is the first one's
C2_Witness ==
  \E r1, r2 \in Registers :
    /\ r1 # r2 /\ Answered(r1) /\ Answered(r2)
    /\ Lowered(reqs[r1].email) = Lowered(reqs[r2].email)
    /\ reqs[r1].email # reqs[r2].email
    /\ reqs[r1].password # reqs[r2].password /\ reqs[r1].role # reqs[r2].role
    /\ reqs[r1].status = 200 /\ reqs[r2].status = 400
    /\ reqs[r2].body = [error |-> "user exists"]
    /\ \E u \in users : /\ u.password = reqs[r1].hashed
                        /\ u.email = Lowered(reqs[r1].email)
                        /\ u.role = "jobseeker"

\* the answered register requests (both fields present) for a lowercased email
AnsweredFor(e) ==
  {r \in Registers : Answered(r) /\ Complete(reqs[r]) /\ Lowered(reqs[r].email) = e}

OkFor(e) == {r \in AnsweredFor(e) : reqs[r].status = 200}

DemoEmails == {demoUsers[i].email : i \in DOMAIN demoUsers}

\* C4: of the register requests for one email (equal after lowercasing), in
\* every interleaving of their hash and insert steps, at most one is answered
\* {ok:true} and every other one 400 'user exists'; once one is answered the
\* store holds exactly one row for the email, the row of the request answered
\* {ok:true}; and exactly one is answered {ok:true} unless the email is a demo
\* account's, which init may have inserted first.
C4_ConcurrentRegister ==
  \A r \in Registers :
    (Answered(r) /\ Complete(reqs[r])) =>
      LET e == Lowered(reqs[r].email)
      IN /\ Cardinality(OkFor(e)) <= 1
         /\ \A q \in AnsweredFor(e) \ OkFor(e) :
              reqs[q].status = 400 /\ reqs[q].body = [error |-> "user exists"]
         /\ Cardinality(RowsOf(e)) = 1
         /\ \A q \in OkFor(e) : \A u \in RowsOf(e) : u.password = reqs[q].hashed
         /\ (e \notin DemoEmails => Cardinality(OkFor(e)) = 1)

\* two requests for one email overlapped: the one that arrived first was
\* overtaken and refused, the later one succeeded
C4_Witness ==
  \E r1, r2 \in Registers :
    /\ r1 < r2 /\ Answered(r1) /\ Answered(r2)
    /\ Lowered(reqs[r1].email) = Lowered(reqs[r2].email)
    /\ Lowered(reqs[r1].email) \notin DemoEmails
    /\ reqs[r1].status = 400 /\ reqs[r1].body = [error |-> "user exists"]
    /\ reqs[r2].status = 200
    /\ Cardinality(RowsOf(Lowered(reqs[r1].email))) = 1

\* the password and role an email's account was created with: those of the
\* register request that was answered {ok:true}, else the demo account's
CreatedWith(e) ==
  IF OkFor(e) # {}
    THEN LET r == CHOOSE r \in OkFor(e) : TRUE
         IN [password |-> reqs[r].password,
             role |-> IF reqs[r].role = "" THEN "jobseeker" ELSE reqs[r].role]
    ELSE LET i == CHOOSE i \in DOMAIN demoUsers : demoUsers[i].email = e
         IN [password |-> demoUsers[i].password, role |-> demoUsers[i].role]

\* C9: a login with both fields present is answered 401 'no user' when no
\* stored user has the lowercased email, 401 'wrong password' when one has but
\* the password is not the one the account was created with, and otherwise
\* 200 with a token and the stored role ('jobseeker' for a user registered
\* without a role); no step of a login changes the store.
C9_Login ==
  [][ \A r \in ReqIds :
        LET q == reqs'[r]
        IN /\ (q.op = "login" /\ q # reqs[r]) =>
                users' = users /\ submissions' = submissions
           /\ (AnsweredNow(r) /\ q.op = "login" /\ Complete(q)) =>
                LET e == Lowered(q.email)
                IN IF RowsOf(e) = {}
                     THEN q.status = 401 /\ q.body = [error |-> "no user"]
                   ELSE IF CreatedWith(e).password # q.password
                     THEN q.status = 401 /\ q.body = [error |-> "wrong password"]
                   ELSE /\ q.status = 200
                        /\ q.body.role = CreatedWith(e).role
                        /\ \E u \in RowsOf(e) :
                             /\ q.body.role = u.role
                             /\ q.body.token.claims.id = u.id
                             /\ q.body.token.claims.email = u.email
                             /\ q.body.token.claims.role = u.role
    ]_vars

\* a user registered without a role logged in with the registered password
\* and got role 'jobseeker'
C9_Witness ==
  \E r \in Registers, l \in Logins :
    /\ Answered(r) /\ reqs[r].status = 200 /\ reqs[r].role = ""
    /\ Answered(l)
    /\ Lowered(reqs[l].email) = Lowered(reqs[r].email)
    /\ reqs[l].email # reqs[r].email
    /\ reqs[l].status = 200 /\ reqs[l].body.role = "jobseeker"
    /\ reqs[l].body.token.claims.role = "jobseeker"

----------------------------------------------------------------------------
(* Properties: seeding, registration and restarts (SpecSeed) *)

InitFinished == initState.pc \in {"done", "failed"}

\* C6: once init has finished, each of the three demo emails has exactly one
\* user row, for any number of restarts and any interleaving of init's lookup
\* and insert steps with register requests.
C6_SeedingIdempotent ==
  InitFinished =>
    \A i \in DOMAIN demoUsers : Cardinality(RowsOf(demoUsers[i].email)) = 1

\* C7: in every state every stored email is lowercase and no two user rows
\* have the same email, whatever seeding, register requests (emails in any
\* letter case) and restarts came before; an INSERT that would break this
\* adds no row and is reported: a register request is answered 400 'user
\* exists', init stops with the error.
C7_EmailsLowercaseUnique ==
  /\ [](\A u \in users : /\ IsLower(u.email)
                         /\ \A v \in users : u.email = v.email => u = v)
  /\ [][ /\ \A r \in ReqIds :
              LET q == reqs'[r]
              IN (/\ AnsweredNow(r) /\ q.op = "register" /\ Complete(q)
                  /\ RowsOf(Lowered(q.email)) # {})
                 => /\ q.status = 400 /\ q.body = [error |-> "user exists"]
                    /\ users' = users
         /\ (/\ initState.pc = "insert" /\ initState'.pc # "insert"
             /\ restarts' = restarts
             /\ RowsOf(demoUsers[initState.i].email) # {})
            => initState'.pc = "failed" /\ users' = users
     ]_vars

\* after a restart: an email given in upper case is stored in lower case, and
\* a second registration of it was refused
C7_Witness ==
  /\ restarts > 0
  /\ \E r1, r2 \in Registers :
       /\ Answered(r1) /\ reqs[r1].status = 200
       /\ reqs[r1].email # Lowered(reqs[r1].email)
       /\ RowsOf(Lowered(reqs[r1].email)) # {}
       /\ RowsOf(reqs[r1].email) = {}
       /\ Answered(r2) /\ reqs[r2].status = 400
       /\ Lowered(reqs[r2].email) = Lowered(reqs[r1].email)

----------------------------------------------------------------------------
(* Properties: tokens and the admin-only routes (SpecAuth, SpecAccess) *)

Guardeds == {r \in ReqIds : reqs[r].op \in {"submissions", "users"}}

\* the token a request presented: the header's second field
Presented(r) == IF Len(reqs[r].auth) >= 2 THEN reqs[r].auth[2] ELSE Undefined

\* the token is one a login returned, and the request came before its expiry
ValidAt(token, t) == token \in IssuedTokens /\ t < token.claims.iat + ExpiresIn

Unauthorized(r) ==
  Answered(r) /\ reqs[r].status = 401 /\ reqs[r].body = [error |-> "unauthorized"]

Forbidden(r) ==
  Answered(r) /\ reqs[r].status = 403 /\ reqs[r].body = [error |-> "forbidden"]

\* the request passed the guard: its SELECT is pending or its rows were sent
Granted(r) == reqs[r].pc = "all" \/ (Answered(r) /\ reqs[r].status = 200)

\* C1: a request to GET /api/submissions or GET /api/users with a missing,
\* malformed, wrongly signed or expired token is answered 401 unauthorized; one
\* with a valid token whose role is not 'admin' is answered 403 forbidden; data
\* is returned only for a valid token whose role is 'admin'.
C1_AdminOnly ==
  \A r \in Guardeds :
    reqs[r].pc # "dropped" =>
      LET token == Presented(r)
          valid == ValidAt(token, reqs[r].at)
      IN /\ ~valid => Unauthorized(r)
         /\ (valid /\ token.claims.role # "admin") => Forbidden(r)
         /\ (valid /\ token.claims.role = "admin") => Granted(r)
         /\ (Answered(r) /\ reqs[r].status = 200) =>
              /\ valid /\ token.claims.role = "admin"
              /\ \E q \in Logins : /\ reqs[q].body = [token |-> token, role |-> "admin"]
                                   /\ reqs[q].status = 200

\* an admin token that a login returned was presented after its expiry and
\* answered 401
C1_Witness ==
  \E r \in Guardeds :
    /\ Presented(r) \in IssuedTokens
    /\ Presented(r).claims.role = "admin"
    /\ reqs[r].at >= Presented(r).claims.iat + ExpiresIn
    /\ Unauthorized(r)

\* C5: the token of a successful login carries the id, email and role of the
\* stored user the login matched, and signed at time t it is accepted by token
\* validation at every time before t + 24 hours and rejected at every time
\* after t + 24 hours.
C5_TokenClaimsAndExpiry ==
  \A r \in Logins :
    (Answered(r) /\ reqs[r].status = 200) =>
      LET token == reqs[r].body.token
      IN /\ \E u \in users :
              /\ u.email = Lowered(reqs[r].email)
              /\ BcryptCompare(reqs[r].password, u.password)
              /\ token.claims.id = u.id
              /\ token.claims.email = u.email
              /\ token.claims.role = u.role
         /\ now < reqs[r].at + ExpiresIn => verifyToken(token) = token.claims
         /\ now > reqs[r].at + ExpiresIn => verifyToken(token) = Null
         /\ \A g \in Guardeds :
              Presented(g) = token =>
                /\ reqs[g].at < reqs[r].at + ExpiresIn => ~Unauthorized(g)
                /\ reqs[g].at > reqs[r].at + ExpiresIn => Unauthorized(g)

\* a token was signed, and more than 24 hours later a protected route
\* answered it with 401
C5_Witness ==
  \E r \in Logins, g \in Guardeds :
    /\ Answered(r) /\ reqs[r].status = 200
    /\ Presented(g) = reqs[r].body.token
    /\ reqs[g].at > reqs[r].at + ExpiresIn
    /\ Unauthorized(g)

\* C10: register stores the role its caller supplied ('jobseeker' when none
\* is given) and asks for no authorization, and a token of a login to an
\* account whose stored role is 'admin' is never answered 401 or 403 by GET
\* /api/submissions and GET /api/users: a caller with no token and no existing
\* account's password gets the data by registering a fresh email with role
\* 'admin' and logging in.
C10_SelfRegisteredAdmin ==
  /\ \A r \in Registers :
       (Answered(r) /\ reqs[r].status = 200) =>
         \E u \in users :
           /\ u.email = Lowered(reqs[r].email)
           /\ u.password = reqs[r].hashed
           /\ u.role = IF reqs[r].role = "" THEN "jobseeker" ELSE reqs[r].role
  /\ \A g \in Guardeds :
       (/\ reqs[g].pc # "dropped"
        /\ ValidAt(Presented(g), reqs[g].at)
        /\ \E u \in users : u.id = Presented(g).claims.id /\ u.role = "admin")
       => Granted(g)

\* the only admin in the store is the account a register request created,
\* and its login's token was answered with rows by both routes
C10_Witness ==
  \E r \in Registers, l \in Logins, g \in Guardeds :
    /\ Answered(r) /\ reqs[r].status = 200 /\ reqs[r].role = "admin"
    /\ Lowered(reqs[r].email) \notin DemoEmails
    /\ Answered(l) /\ reqs[l].status = 200
    /\ Lowered(reqs[l].email) = Lowered(reqs[r].email)
    /\ reqs[l].password = reqs[r].password
    /\ Presented(g) = reqs[l].body.token
    /\ Answered(g) /\ reqs[g].status = 200
    /\ \A u \in users : u.role = "admin" => u.password = reqs[r].hashed

----------------------------------------------------------------------------
(* Properties: submissions (SpecSubmit) *)

\* the submit requests whose INSERT has run
Accepted == {r \in Submits : reqs[r].inserted # 0}

\* C3: every successful POST /api/submit response carries the id of the row
\* that the same request inserted, and no two successful responses carry the
\* same id, however the store operations of the requests in flight interleave.
C3_SubmitReturnsOwnId ==
  \A r \in Submits :
    (Answered(r) /\ reqs[r].status = 200) =>
      /\ reqs[r].body.id = reqs[r].inserted
      /\ \A q \in Submits :
           (Answered(q) /\ reqs[q].status = 200 /\ reqs[q].body.id = reqs[r].body.id)
           => q = r

====
